---- MODULE Spec2Model ----
(***************************************************************************)
(* Process supervision and log streaming of indextts-hub                   *)
(* (src-tauri/src/commands/server.rs and index_tts.rs).                    *)
(*                                                                         *)
(* Spec     : the Server Supervisor (start / stop / status commands run by *)
(*            concurrent callers on one Mutex<Option<Child>>) together      *)
(*            with the Port Reclaimer that stop calls.                     *)
(* SpecStep : one run_command_with_streaming invocation: the command, its  *)
(*            two Stream Forwarder tasks and the task awaiting its exit.   *)
(***************************************************************************)
EXTENDS Naturals, Sequences, FiniteSets, TLC

\* ------------------------------------------------------------------ bounds
\* server processes start_index_tts_server may spawn in one behaviour
MaxProcs == 2

\* most bytes a command run as a step writes, on stdout and stderr together
MaxOutput == 3

\* ------------------------------------------------------- program constants
MAX_ATTEMPTS == 5
ServerPort == 7860
\* let mut chunk = vec![0u8; 4096];
ChunkSize == 4096

\* the command invocations the UI has in flight at the same time
Callers == {1, 2}
Procs == 1..MaxProcs
\* port values a caller may pass to start_index_tts_server (port: u16)
Ports == {ServerPort, ServerPort + 1}
\* Option<Child>::None, and "no caller" for the mutex
None == 0

\* the two piped streams of a spawned command
Streams == {"stdout", "stderr"}

VARIABLES
    handle,      \* ServerChildProcess.0 : None or the id of the stored Child
    mutex,       \* owner of the std::sync::Mutex guard, or None
    pstate,      \* per spawned OS process: "none" | "alive" | "exited" | "reaped"
    pport,       \* the --port argument each server process was started with
    listening,   \* PortState of 127.0.0.1:7860, the one port the code probes
    pc,          \* position of each caller's command future
    child,       \* stop's local `child` / `child_process` (the taken handle)
    result,      \* the Result a finished command returned
    attempts,    \* ensure_port_closed's loop counter
    probe,       \* outcome of the last port_is_reachable of this stop call
    via,         \* how the handle now held got into the slot
    starting,    \* processes whose start call returned Ok(Starting)
    dropped      \* Childs overwritten in the slot while never observed exited

srvVars == <<handle, mutex, pstate, pport, listening, pc, child, result,
             attempts, probe, via, starting, dropped>>

VARIABLES
    step,        \* the step name run_command_with_streaming was called with
    script,      \* per stream: the bytes the command writes in its lifetime
    nread,       \* per stream: how many of them the forwarder has read
    exit,        \* "unspawned" | "running", or the exit status "ok" | "fail"
    rpc,         \* per stream: position of the spawn_stream_reader task
    carry,       \* per stream: the forwarder's `carry`
    line,        \* per stream: the `line` argument of the running forward_line
    fwd,         \* per stream: the lines passed to forward_line so far
    acc,         \* stderr_accumulator
    sink,        \* per stream: the events the Sink received, in order
    mpc,         \* position of run_command_with_streaming itself
    mres,        \* its Result
    errOut       \* `stderr_output`, the joined accumulator

stepVars == <<step, script, nread, exit, rpc, carry, line, fwd, acc,
              sink, mpc, mres, errOut>>

VARIABLES
    op,          \* the deployment command invoked: clone / init_lfs / setup_env
    opc,         \* position of that command's future
    ores,        \* the Result it returned
    err,         \* clone_index_tts_repo's `err`: what repair_existing_repo returned
    calls,       \* the step names run_command_with_streaming was called with, in order
    rets,        \* what each of those calls returned, in order
    tgt,         \* what target_dir is on disk
    checks       \* how many times repo_has_core_files has been evaluated

depVars == <<op, opc, ores, err, calls, rets, tgt, checks>>

VARIABLES
    owners,      \* the PIDs that hold a socket on the probed port
    pids,        \* force_kill_port: the PIDs of the query's output not yet visited
    killed,      \* the PIDs force_kill_port has killed
    abortAt      \* history: the owners of the port when force_kill_port returned Err

rclVars == <<owners, pids, killed, abortAt>>

vars == <<srvVars, stepVars, depVars, rclVars>>

Spawned == Cardinality({p \in Procs : pstate[p] # "none"})

Alive == {p \in Procs : pstate[p] = "alive"}

InitSrv ==
    /\ handle = None
    /\ mutex = None
    /\ pstate = [p \in Procs |-> "none"]
    /\ pport = [p \in Procs |-> ServerPort]
    /\ listening = FALSE
    /\ pc = [c \in Callers |-> "idle"]
    /\ child = [c \in Callers |-> None]
    /\ result = [c \in Callers |-> "none"]
    /\ attempts = [c \in Callers |-> 0]
    /\ probe = [c \in Callers |-> "none"]
    /\ via = "none"
    /\ starting = {}
    /\ dropped = {}

\* No step runs: the Step Runner's state while the supervisor is observed.
StepOff ==
    /\ step = "none"
    /\ script = [s \in Streams |-> <<>>]
    /\ nread = [s \in Streams |-> 0]
    /\ exit = "unspawned"
    /\ rpc = [s \in Streams |-> "off"]
    /\ carry = [s \in Streams |-> <<>>]
    /\ line = [s \in Streams |-> <<>>]
    /\ fwd = [s \in Streams |-> <<>>]
    /\ acc = <<>>
    /\ sink = [s \in Streams |-> <<>>]
    /\ mpc = "off"
    /\ mres = "none"
    /\ errOut = <<>>

\* What a command returns, as far as the callers tell results apart: for the
\* Err of a step also the step it names and the stderr text it carries.
Res(k) == [kind |-> k, step |-> "none", excerpt |-> <<>>]

\* No deployment command runs.
\* force_kill_port is observed as one step: no PID is tracked.
ReclaimOff ==
    /\ owners = {}
    /\ pids = <<>>
    /\ killed = {}
    /\ abortAt = <<>>

DeployOff ==
    /\ op = "none"
    /\ opc = "off"
    /\ ores = Res("none")
    /\ err = Res("none")
    /\ calls = <<>>
    /\ rets = <<>>
    /\ tgt = "absent"
    /\ checks = 0

\* A command returns r: its future completes and every guard it holds is dropped.
Finish(c, r) ==
    /\ pc' = [pc EXCEPT ![c] = "done"]
    /\ result' = [result EXCEPT ![c] = r]

\* Mutant of StartLock: the start command proceeds without taking the lock.
StartLockNoMutex(c) ==
    /\ UNCHANGED <<stepVars, depVars, rclVars>>
    /\ pc[c] = "idle"
    /\ pc' = [pc EXCEPT ![c] = "s_check"]
    /\ UNCHANGED <<handle, mutex, pstate, pport, listening, child, result,
                   attempts, probe, via, starting, dropped>>

\* ------------------------------------------------ start_index_tts_server
\* let mut guard = state.lock();
StartLock(c) ==
    /\ UNCHANGED <<stepVars, depVars, rclVars>>
    /\ pc[c] = "idle"
    /\ mutex = None
    /\ mutex' = c
    /\ pc' = [pc EXCEPT ![c] = "s_check"]
    /\ UNCHANGED <<handle, pstate, pport, listening, child, result, attempts,
                   probe, via, starting, dropped>>

\* Mutant of StartCheck: start polls a held child and takes the slot over
\* when the process has exited.
StartCheckPollsChild(c) ==
    /\ UNCHANGED <<stepVars, depVars, rclVars>>
    /\ pc[c] = "s_check"
    /\ IF handle # None /\ pstate[handle] = "alive"
          THEN /\ Finish(c, "ErrAlreadyRunning")
               /\ mutex' = None
               /\ UNCHANGED <<handle, via>>
          ELSE /\ pc' = [pc EXCEPT ![c] = "s_spawn"]
               /\ handle' = None
               /\ via' = "none"
               /\ UNCHANGED <<mutex, result>>
    /\ UNCHANGED <<pstate, pport, listening, child, attempts, probe,
                   starting, dropped>>

\* if guard.is_some() { return Err("Server is already running.") }
StartCheck(c) ==
    /\ UNCHANGED <<stepVars, depVars, rclVars>>
    /\ pc[c] = "s_check"
    /\ IF handle # None
          THEN /\ Finish(c, "ErrAlreadyRunning")
               /\ mutex' = None
          ELSE /\ pc' = [pc EXCEPT ![c] = "s_spawn"]
               /\ UNCHANGED <<mutex, result>>
    /\ UNCHANGED <<handle, pstate, pport, listening, child, attempts, probe,
                   via, starting, dropped>>

\* Mutant of StartSpawn: a successful start reports Running at once.
StartSpawnReturnsRunning(c) ==
    /\ UNCHANGED <<stepVars, depVars, rclVars>>
    /\ pc[c] = "s_spawn"
    /\ \E dir \in {"missing", "no_webui", "ok"}, port \in Ports, spawnOk \in BOOLEAN :
          IF dir = "ok" /\ spawnOk
             THEN /\ Spawned < MaxProcs
                  /\ LET p == Spawned + 1 IN
                        /\ pstate' = [pstate EXCEPT ![p] = "alive"]
                        /\ pport' = [pport EXCEPT ![p] = port]
                        /\ handle' = p
                  /\ via' = "start"
                  /\ Finish(c, "Running")
                  /\ UNCHANGED <<starting, dropped>>
             ELSE /\ Finish(c, CASE dir = "missing" -> "ErrNoTargetDir"
                                 [] dir = "no_webui" -> "ErrNoWebui"
                                 [] OTHER -> "ErrSpawn")
                  /\ UNCHANGED <<handle, pstate, pport, via,
                                 starting, dropped>>
    /\ mutex' = None
    /\ UNCHANGED <<listening, child, attempts, probe>>

\* Mutant of StartSpawn: webui.py is looked for only after the spawn; the
\* process runs and the error is returned without storing its handle.
StartSpawnChecksEntryLate(c) ==
    /\ UNCHANGED <<stepVars, depVars, rclVars>>
    /\ pc[c] = "s_spawn"
    /\ \E dir \in {"missing", "no_webui", "ok"}, port \in Ports, spawnOk \in BOOLEAN :
          IF dir \in {"ok", "no_webui"} /\ spawnOk
             THEN /\ Spawned < MaxProcs
                  /\ LET p == Spawned + 1 IN
                        /\ pstate' = [pstate EXCEPT ![p] = "alive"]
                        /\ pport' = [pport EXCEPT ![p] = port]
                        /\ IF dir = "ok"
                              THEN /\ handle' = p
                                   /\ starting' = starting \cup {p}
                                   /\ via' = "start"
                                   /\ Finish(c, "Starting")
                              ELSE /\ Finish(c, "ErrNoWebui")
                                   /\ UNCHANGED <<handle, starting, via>>
                  /\ UNCHANGED dropped
             ELSE /\ Finish(c, CASE dir = "missing" -> "ErrNoTargetDir"
                                 [] dir = "no_webui" -> "ErrNoWebui"
                                 [] OTHER -> "ErrSpawn")
                  /\ UNCHANGED <<handle, pstate, pport, via,
                                 starting, dropped>>
    /\ mutex' = None
    /\ UNCHANGED <<listening, child, attempts, probe>>

\* The path checks, command.spawn(), the two forwarding tasks, *guard = Some(child)
\* and Ok(Starting): no await in between, the guard is held to the return.
StartSpawn(c) ==
    /\ UNCHANGED <<stepVars, depVars, rclVars>>
    /\ pc[c] = "s_spawn"
    /\ \E dir \in {"missing", "no_webui", "ok"}, port \in Ports, spawnOk \in BOOLEAN :
          IF dir = "ok" /\ spawnOk
             THEN /\ Spawned < MaxProcs
                  /\ LET p == Spawned + 1 IN
                        /\ pstate' = [pstate EXCEPT ![p] = "alive"]
                        /\ pport' = [pport EXCEPT ![p] = port]
                        /\ handle' = p
                        /\ starting' = starting \cup {p}
                        /\ dropped' = IF handle # None /\ pstate[handle] # "reaped"
                                         THEN dropped \cup {handle} ELSE dropped
                  /\ via' = "start"
                  /\ Finish(c, "Starting")
             ELSE /\ Finish(c, CASE dir = "missing" -> "ErrNoTargetDir"
                                 [] dir = "no_webui" -> "ErrNoWebui"
                                 [] OTHER -> "ErrSpawn")
                  /\ UNCHANGED <<handle, pstate, pport, via,
                                 starting, dropped>>
    /\ mutex' = None
    /\ UNCHANGED <<listening, child, attempts, probe>>

\* Mutant of StopTake: the guard is not scoped to the take and is still held
\* when stop awaits the kill.
StopTakeHoldsGuard(c) ==
    /\ UNCHANGED <<stepVars, depVars, rclVars>>
    /\ pc[c] = "idle"
    /\ mutex = None
    /\ mutex' = IF handle # None THEN c ELSE None
    /\ child' = [child EXCEPT ![c] = handle]
    /\ handle' = None
    /\ via' = "none"
    /\ pc' = [pc EXCEPT ![c] = IF handle # None THEN "t_kill" ELSE "e_probe"]
    /\ UNCHANGED <<pstate, pport, listening, result, attempts, probe,
                   starting, dropped>>

\* ------------------------------------------------- stop_index_tts_server
\* let child = { let mut guard = state.lock(); guard.take() };
StopTake(c) ==
    /\ UNCHANGED <<stepVars, depVars, rclVars>>
    /\ pc[c] = "idle"
    /\ mutex = None
    /\ child' = [child EXCEPT ![c] = handle]
    /\ handle' = None
    /\ via' = "none"
    /\ pc' = [pc EXCEPT ![c] = IF handle # None THEN "t_kill" ELSE "e_probe"]
    /\ UNCHANGED <<mutex, pstate, pport, listening, result, attempts, probe,
                   starting, dropped>>

\* child_process.kill().await (signal, then wait for the exit) and, when it
\* succeeded, let _ = child_process.wait().await. A failed kill leaves the
\* process as it was, or signalled but not reaped.
StopKill(c) ==
    /\ UNCHANGED <<stepVars, depVars, rclVars>>
    /\ pc[c] = "t_kill"
    /\ \E killOk \in BOOLEAN, signalled \in BOOLEAN :
          IF killOk
             THEN /\ signalled
                  /\ pstate' = [pstate EXCEPT ![child[c]] = "reaped"]
                  /\ pc' = [pc EXCEPT ![c] = "e_probe"]
             ELSE /\ pstate' = [pstate EXCEPT ![child[c]] =
                                   IF signalled /\ @ = "alive" THEN "exited" ELSE @]
                  /\ pc' = [pc EXCEPT ![c] = "t_restore"]
    /\ UNCHANGED <<handle, mutex, pport, listening, child, result, attempts,
                   probe, via, starting, dropped>>

\* Mutant of StopRestore: the kill error is returned without putting the
\* handle back.
StopRestoreDropsHandle(c) ==
    /\ UNCHANGED <<stepVars, depVars, rclVars>>
    /\ pc[c] = "t_restore"
    /\ mutex = None
    /\ Finish(c, "ErrKill")
    /\ UNCHANGED <<handle, mutex, pstate, pport, listening, child, attempts,
                   probe, via, starting, dropped>>

\* let mut guard = state.lock(); *guard = Some(child_process); return Err(..)
StopRestore(c) ==
    /\ UNCHANGED <<stepVars, depVars, rclVars>>
    /\ pc[c] = "t_restore"
    /\ mutex = None
    /\ handle' = child[c]
    /\ via' = "restore"
    /\ dropped' = IF handle # None /\ pstate[handle] # "reaped"
                     THEN dropped \cup {handle} ELSE dropped
    /\ Finish(c, "ErrKill")
    /\ UNCHANGED <<mutex, pstate, pport, listening, child, attempts, probe,
                   starting>>

\* Mutant of EnsureProbe: the first round kills before it probes (a do-while).
EnsureProbeKillsFirst(c) ==
    /\ UNCHANGED <<stepVars, depVars, rclVars>>
    /\ pc[c] = "e_probe"
    /\ attempts[c] < MAX_ATTEMPTS
    /\ IF listening \/ attempts[c] = 0
          THEN /\ probe' = [probe EXCEPT ![c] = "open"]
               /\ pc' = [pc EXCEPT ![c] = "e_kill"]
               /\ UNCHANGED result
          ELSE /\ probe' = [probe EXCEPT ![c] = "closed"]
               /\ Finish(c, "Stopped")
    /\ UNCHANGED <<handle, mutex, pstate, pport, listening, child, attempts,
                   via, starting, dropped>>

\* ensure_port_closed(7860): the loop head, if !port_is_reachable(port) { return Ok(()) }
EnsureProbe(c) ==
    /\ UNCHANGED <<stepVars, depVars, rclVars>>
    /\ pc[c] = "e_probe"
    /\ attempts[c] < MAX_ATTEMPTS
    /\ IF listening
          THEN /\ probe' = [probe EXCEPT ![c] = "open"]
               /\ pc' = [pc EXCEPT ![c] = "e_kill"]
               /\ UNCHANGED result
          ELSE /\ probe' = [probe EXCEPT ![c] = "closed"]
               /\ Finish(c, "Stopped")
    /\ UNCHANGED <<handle, mutex, pstate, pport, listening, child, attempts,
                   via, starting, dropped>>

\* Mutant of EnsureKill: the loop bound is off by one (0..=MAX_ATTEMPTS).
EnsureKillSixRounds(c) ==
    /\ UNCHANGED <<stepVars, depVars, rclVars>>
    /\ pc[c] = "e_kill"
    /\ \E out \in {"query_err", "no_pids", "killed", "kill_err"} :
          CASE out = "query_err" ->
                  /\ Finish(c, "ErrForceKill")
                  /\ UNCHANGED <<listening, attempts>>
            [] out = "kill_err" ->
                  /\ Finish(c, "ErrForceKill")
                  /\ listening' \in {listening, FALSE}
                  /\ UNCHANGED attempts
            [] out \in {"no_pids", "killed"} ->
                  /\ listening' = IF out = "killed" THEN FALSE ELSE listening
                  /\ attempts' = [attempts EXCEPT ![c] = @ + 1]
                  /\ pc' = [pc EXCEPT ![c] = IF attempts[c] + 1 <= MAX_ATTEMPTS
                                                 THEN "e_probe" ELSE "e_final"]
                  /\ UNCHANGED result
    /\ UNCHANGED <<handle, mutex, pstate, pport, child, probe, via, starting,
                   dropped>>

\* force_kill_port(port).await?; sleep(Duration::from_millis(300)).await; and the
\* for loop's next iteration. The owner query fails, finds no PID, or every PID
\* found is killed, or one kill fails after some PIDs were killed.
EnsureKill(c) ==
    /\ UNCHANGED <<stepVars, depVars, rclVars>>
    /\ pc[c] = "e_kill"
    /\ \E out \in {"query_err", "no_pids", "killed", "kill_err"} :
          CASE out = "query_err" ->
                  /\ Finish(c, "ErrForceKill")
                  /\ UNCHANGED <<listening, attempts>>
            [] out = "kill_err" ->
                  /\ Finish(c, "ErrForceKill")
                  /\ listening' \in {listening, FALSE}
                  /\ UNCHANGED attempts
            [] out \in {"no_pids", "killed"} ->
                  /\ listening' = IF out = "killed" THEN FALSE ELSE listening
                  /\ attempts' = [attempts EXCEPT ![c] = @ + 1]
                  /\ pc' = [pc EXCEPT ![c] = IF attempts[c] + 1 < MAX_ATTEMPTS
                                                 THEN "e_probe" ELSE "e_final"]
                  /\ UNCHANGED result
    /\ UNCHANGED <<handle, mutex, pstate, pport, child, probe, via, starting,
                   dropped>>

\* Mutant of EnsureFinal: the port-still-bound error puts the taken handle
\* back, as the kill error does.
EnsureFinalRestoresHandle(c) ==
    /\ UNCHANGED <<stepVars, depVars, rclVars>>
    /\ pc[c] = "e_final"
    /\ IF listening
          THEN /\ probe' = [probe EXCEPT ![c] = "open"]
               /\ Finish(c, "ErrPortStillBound")
               /\ handle' = child[c]
          ELSE /\ probe' = [probe EXCEPT ![c] = "closed"]
               /\ Finish(c, "Stopped")
               /\ UNCHANGED handle
    /\ UNCHANGED <<mutex, pstate, pport, listening, child, attempts,
                   via, starting, dropped>>

\* after the loop: if port_is_reachable(port) { Err(..) } else { Ok(()) }
EnsureFinal(c) ==
    /\ UNCHANGED <<stepVars, depVars, rclVars>>
    /\ pc[c] = "e_final"
    /\ IF listening
          THEN /\ probe' = [probe EXCEPT ![c] = "open"]
               /\ Finish(c, "ErrPortStillBound")
          ELSE /\ probe' = [probe EXCEPT ![c] = "closed"]
               /\ Finish(c, "Stopped")
    /\ UNCHANGED <<handle, mutex, pstate, pport, listening, child, attempts,
                   via, starting, dropped>>

\* Mutant of GetServerStatus: the arms of the try_wait match are swapped.
GetServerStatusArmsSwapped(c) ==
    /\ UNCHANGED <<stepVars, depVars, rclVars>>
    /\ pc[c] = "idle"
    /\ mutex = None
    /\ IF handle = None
          THEN /\ Finish(c, "Stopped")
               /\ UNCHANGED <<handle, via>>
          ELSE \E pollOk \in BOOLEAN :
                  CASE ~pollOk ->
                          /\ Finish(c, "ErrPoll")
                          /\ UNCHANGED <<handle, via>>
                    [] pollOk /\ pstate[handle] # "alive" ->
                          /\ Finish(c, "Running")
                          /\ UNCHANGED <<handle, via>>
                    [] pollOk /\ pstate[handle] = "alive" ->
                          /\ handle' = None
                          /\ via' = "none"
                          /\ Finish(c, "Stopped")
    /\ UNCHANGED <<mutex, pstate, pport, listening, child, attempts, probe,
                   starting, dropped>>

\* Mutant of GetServerStatus: an exited process is reported Stopped but the
\* handle is not cleared.
GetServerStatusKeepsExited(c) ==
    /\ UNCHANGED <<stepVars, depVars, rclVars>>
    /\ pc[c] = "idle"
    /\ mutex = None
    /\ IF handle = None
          THEN Finish(c, "Stopped")
          ELSE \E pollOk \in BOOLEAN :
                  CASE ~pollOk -> Finish(c, "ErrPoll")
                    [] pollOk /\ pstate[handle] = "alive" -> Finish(c, "Running")
                    [] pollOk /\ pstate[handle] # "alive" -> Finish(c, "Stopped")
    /\ UNCHANGED <<handle, mutex, pstate, pport, listening, child, attempts,
                   probe, via, starting, dropped>>

\* ------------------------------------------------------ get_server_status
\* The whole body runs under the guard and has no await.
GetServerStatus(c) ==
    /\ UNCHANGED <<stepVars, depVars, rclVars>>
    /\ pc[c] = "idle"
    /\ mutex = None
    /\ IF handle = None
          THEN /\ Finish(c, "Stopped")
               /\ UNCHANGED <<handle, pstate, via>>
          ELSE \E pollOk \in BOOLEAN :
                  CASE ~pollOk ->
                          /\ Finish(c, "ErrPoll")
                          /\ UNCHANGED <<handle, pstate, via>>
                    [] pollOk /\ pstate[handle] = "alive" ->
                          /\ Finish(c, "Running")
                          /\ UNCHANGED <<handle, pstate, via>>
                    [] pollOk /\ pstate[handle] # "alive" ->
                          /\ pstate' = [pstate EXCEPT ![handle] = "reaped"]
                          /\ handle' = None
                          /\ via' = "none"
                          /\ Finish(c, "Stopped")
    /\ UNCHANGED <<mutex, pport, listening, child, attempts, probe, starting,
                   dropped>>

\* The caller receives the result and may invoke another command.
Return(c) ==
    /\ UNCHANGED <<stepVars, depVars, rclVars>>
    /\ pc[c] = "done"
    /\ pc' = [pc EXCEPT ![c] = "idle"]
    /\ result' = [result EXCEPT ![c] = "none"]
    /\ child' = [child EXCEPT ![c] = None]
    /\ attempts' = [attempts EXCEPT ![c] = 0]
    /\ probe' = [probe EXCEPT ![c] = "none"]
    /\ UNCHANGED <<handle, mutex, pstate, pport, listening, via,
                   starting, dropped>>

\* ------------------------------------------------------------ environment
\* The server process exits on its own.
ProcExit(p) ==
    /\ UNCHANGED <<stepVars, depVars, rclVars>>
    /\ pstate[p] = "alive"
    /\ pstate' = [pstate EXCEPT ![p] = "exited"]
    /\ UNCHANGED <<handle, mutex, pport, listening, pc, child, result,
                   attempts, probe, via, starting, dropped>>

\* A live server started with --port 7860 (or a process it forked) binds the port.
Listen(p) ==
    /\ UNCHANGED <<stepVars, depVars, rclVars>>
    /\ pstate[p] = "alive"
    /\ pport[p] = ServerPort
    /\ ~listening
    /\ listening' = TRUE
    /\ UNCHANGED <<handle, mutex, pstate, pport, pc, child, result, attempts,
                   probe, via, starting, dropped>>

\* Whatever holds the listening socket (possibly a forked process that
\* outlives the child) closes it.
Unlisten ==
    /\ UNCHANGED <<stepVars, depVars, rclVars>>
    /\ listening
    /\ listening' = FALSE
    /\ UNCHANGED <<handle, mutex, pstate, pport, pc, child, result, attempts,
                   probe, via, starting, dropped>>

Init == InitSrv /\ StepOff /\ DeployOff /\ ReclaimOff

Next ==
    \/ \E c \in Callers : StartLock(c)
    \/ \E c \in Callers : StartCheck(c)
    \/ \E c \in Callers : StartSpawn(c)
    \/ \E c \in Callers : StopTake(c)
    \/ \E c \in Callers : StopKill(c)
    \/ \E c \in Callers : StopRestore(c)
    \/ \E c \in Callers : EnsureProbe(c)
    \/ \E c \in Callers : EnsureKill(c)
    \/ \E c \in Callers : EnsureFinal(c)
    \/ \E c \in Callers : GetServerStatus(c)
    \/ \E c \in Callers : Return(c)
    \/ \E p \in Procs : ProcExit(p)
    \/ \E p \in Procs : Listen(p)
    \/ Unlisten

Spec == Init /\ [][Next]_vars

\* ================================================================ Step Runner
CR == "\r"
LF == "\n"
\* The bytes a command may write: a letter, a byte that is not valid UTF-8,
\* and the two line-break bytes.
Bytes == {"a", "xFF", CR, LF}
\* the step name the observed invocation is called with
Steps == {"clone_repo"}

SeqsUpTo(S, n) == UNION {[1..k -> S] : k \in 0..n}

Min(a, b) == IF a < b THEN a ELSE b

\* String::from_utf8_lossy(&chunk[..n]): invalid bytes become U+FFFD
FromUtf8Lossy(bs) == [i \in 1..Len(bs) |-> IF bs[i] = "xFF" THEN "U+FFFD" ELSE bs[i]]

\* text.replace("\r\n", "\n"): left to right, non-overlapping
RECURSIVE ReplaceCrLf(_)
ReplaceCrLf(t) ==
    IF t = <<>> THEN <<>>
    ELSE IF Len(t) >= 2 /\ t[1] = CR /\ t[2] = LF
            THEN <<LF>> \o ReplaceCrLf(SubSeq(t, 3, Len(t)))
            ELSE <<t[1]>> \o ReplaceCrLf(Tail(t))

\* text.replace('\r', "\n")
ReplaceCr(t) == [i \in 1..Len(t) |-> IF t[i] = CR THEN LF ELSE t[i]]

\* if text.contains('\r') { text = text.replace("\r\n", "\n"); text = text.replace('\r', "\n"); }
NormalizeChunk(t) ==
    IF \E i \in 1..Len(t) : t[i] = CR THEN ReplaceCr(ReplaceCrLf(t)) ELSE t

\* carry.find('\n'): the first position of a line feed, 0 for None
FindLF(t) ==
    IF \E i \in 1..Len(t) : t[i] = LF
       THEN CHOOSE i \in 1..Len(t) : t[i] = LF /\ \A j \in 1..(i - 1) : t[j] # LF
       ELSE 0

\* buf.join("\n")
RECURSIVE Join(_)
Join(ls) ==
    IF ls = <<>> THEN <<>>
    ELSE IF Len(ls) = 1 THEN ls[1]
    ELSE ls[1] \o <<LF>> \o Join(Tail(ls))

\* the bytes of stream s the forwarder has not read yet: in the pipe, or still
\* to come from the running command
Avail(s) == Len(script[s]) - nread[s]

InitStep ==
    /\ InitSrv
    /\ DeployOff
    /\ ReclaimOff
    /\ step \in Steps
    /\ script \in {[s \in Streams |-> IF s = "stdout" THEN oe[1] ELSE oe[2]] :
                      oe \in {x \in SeqsUpTo(Bytes, MaxOutput) \X SeqsUpTo(Bytes, MaxOutput) :
                                 Len(x[1]) + Len(x[2]) <= MaxOutput}}
    /\ nread = [s \in Streams |-> 0]
    /\ exit = "unspawned"
    /\ rpc = [s \in Streams |-> "off"]
    /\ carry = [s \in Streams |-> <<>>]
    /\ line = [s \in Streams |-> <<>>]
    /\ fwd = [s \in Streams |-> <<>>]
    /\ acc = <<>>
    /\ sink = [s \in Streams |-> <<>>]
    /\ mpc = "spawn"
    /\ mres = "none"
    /\ errOut = <<>>

\* command.spawn().map_err(..)? and the two spawn_stream_reader calls
StepSpawn ==
    /\ mpc = "spawn"
    /\ \E spawnOk \in BOOLEAN :
          IF spawnOk
             THEN /\ mpc' = "wait"
                  /\ exit' = "running"
                  /\ rpc' = [s \in Streams |-> "read"]
                  /\ UNCHANGED mres
             ELSE /\ mpc' = "done"
                  /\ mres' = "ErrSpawn"
                  /\ UNCHANGED <<exit, rpc>>
    /\ UNCHANGED <<step, script, nread, carry, line, fwd, acc, sink, errOut>>
    /\ UNCHANGED <<srvVars, depVars, rclVars>>

\* The command exits, with status 0 or not; its output is in the pipes.
CmdExit ==
    /\ exit = "running"
    /\ exit' \in {"ok", "fail"}
    /\ UNCHANGED <<step, script, nread, rpc, carry, line, fwd, acc,
                   sink, mpc, mres, errOut>>
    /\ UNCHANGED <<srvVars, depVars, rclVars>>

\* reader.read(&mut chunk).await: Ok(n) with n > 0 (as much as the command has
\* put into the pipe by then, at most a chunk), then the normalisation and
\* carry.push_str(&text); or Ok(0) once the command has exited and the pipe is
\* drained.
ReaderRead(s) ==
    /\ rpc[s] = "read"
    /\ IF Avail(s) > 0
          THEN \E n \in 1..Min(Avail(s), ChunkSize) :
                  /\ carry' = [carry EXCEPT ![s] = @ \o NormalizeChunk(
                                  FromUtf8Lossy(SubSeq(script[s], nread[s] + 1, nread[s] + n)))]
                  /\ nread' = [nread EXCEPT ![s] = @ + n]
                  /\ rpc' = [rpc EXCEPT ![s] = "loop"]
          ELSE /\ exit \in {"ok", "fail"}
               /\ rpc' = [rpc EXCEPT ![s] = IF carry[s] # <<>> THEN "flush" ELSE "eof"]
               /\ UNCHANGED <<carry, nread>>
    /\ UNCHANGED <<step, script, exit, line, fwd, acc, sink, mpc, mres, errOut>>
    /\ UNCHANGED <<srvVars, depVars, rclVars>>

\* Err(_) => break
ReaderReadErr(s) ==
    /\ rpc[s] = "read"
    /\ rpc' = [rpc EXCEPT ![s] = "broken"]
    /\ UNCHANGED <<step, script, nread, exit, carry, line, fwd, acc,
                   sink, mpc, mres, errOut>>
    /\ UNCHANGED <<srvVars, depVars, rclVars>>

\* Mutant of ForwardPush: the line is inserted at the front (insert(0, ..)
\* for push).
ForwardPushFront(s, l) ==
    /\ fwd' = [fwd EXCEPT ![s] = <<l>> \o @]
    /\ acc' = IF s = "stderr" THEN <<l>> \o acc ELSE acc

\* forward_line, first half: if let Some(buf) = buffer { guard.push(line) }.
\* Only the stderr forwarder is given the accumulator.
ForwardPush(s, l) ==
    /\ fwd' = [fwd EXCEPT ![s] = Append(@, l)]
    /\ acc' = IF s = "stderr" THEN Append(acc, l) ELSE acc

\* forward_line, second half: if !line.is_empty() { emit_core_deploy_log(..) },
\* where a failed emit is ignored (let _ = app_handle.emit(..)).
ForwardEmit(s, l) ==
    IF l # <<>>
       THEN \E emitOk \in BOOLEAN :
               sink' = IF emitOk
                          THEN [sink EXCEPT ![s] = Append(@, [step |-> step, stream |-> s, line |-> l])]
                          ELSE sink
       ELSE sink' = sink

\* while let Some(pos) = carry.find('\n'): cut the line off, call forward_line
ReaderLoop(s) ==
    /\ rpc[s] = "loop"
    /\ LET pos == FindLF(carry[s]) IN
          IF pos # 0
             THEN /\ line' = [line EXCEPT ![s] = SubSeq(carry[s], 1, pos - 1)]
                  /\ carry' = [carry EXCEPT ![s] = SubSeq(@, pos + 1, Len(@))]
                  /\ ForwardPush(s, SubSeq(carry[s], 1, pos - 1))
                  /\ rpc' = [rpc EXCEPT ![s] = "emit"]
             ELSE /\ rpc' = [rpc EXCEPT ![s] = "read"]
                  /\ UNCHANGED <<line, carry, fwd, acc>>
    /\ UNCHANGED <<step, script, nread, exit, sink, mpc, mres, errOut>>
    /\ UNCHANGED <<srvVars, depVars, rclVars>>

ReaderEmit(s) ==
    /\ rpc[s] = "emit"
    /\ ForwardEmit(s, line[s])
    /\ line' = [line EXCEPT ![s] = <<>>]
    /\ rpc' = [rpc EXCEPT ![s] = "loop"]
    /\ UNCHANGED <<step, script, nread, exit, carry, fwd, acc, mpc, mres, errOut>>
    /\ UNCHANGED <<srvVars, depVars, rclVars>>

\* Ok(0) with a non-empty carry: forward_line(.., &carry, ..); carry.clear(); break
ReaderFlush(s) ==
    /\ rpc[s] = "flush"
    /\ line' = [line EXCEPT ![s] = carry[s]]
    /\ ForwardPush(s, carry[s])
    /\ rpc' = [rpc EXCEPT ![s] = "flush_emit"]
    /\ UNCHANGED <<step, script, nread, exit, carry, sink, mpc, mres, errOut>>
    /\ UNCHANGED <<srvVars, depVars, rclVars>>

ReaderFlushEmit(s) ==
    /\ rpc[s] = "flush_emit"
    /\ ForwardEmit(s, line[s])
    /\ line' = [line EXCEPT ![s] = <<>>]
    /\ carry' = [carry EXCEPT ![s] = <<>>]
    /\ rpc' = [rpc EXCEPT ![s] = "eof"]
    /\ UNCHANGED <<step, script, nread, exit, fwd, acc, mpc, mres, errOut>>
    /\ UNCHANGED <<srvVars, depVars, rclVars>>

\* child.wait().await, then the status check and the join of the accumulator
StepWait ==
    /\ mpc = "wait"
    /\ exit \in {"ok", "fail"}
    /\ \E waitOk \in BOOLEAN :
          CASE ~waitOk -> mres' = "ErrWait" /\ UNCHANGED errOut
            [] waitOk /\ exit = "ok" -> mres' = "Ok" /\ UNCHANGED errOut
            [] waitOk /\ exit = "fail" -> mres' = "ErrStepFailed" /\ errOut' = Join(acc)
    /\ mpc' = "done"
    /\ UNCHANGED <<step, script, nread, exit, rpc, carry, line, fwd, acc, sink>>
    /\ UNCHANGED <<srvVars, depVars, rclVars>>

NextStep ==
    \/ StepSpawn
    \/ CmdExit
    \/ \E s \in Streams : ReaderRead(s)
    \/ \E s \in Streams : ReaderReadErr(s)
    \/ \E s \in Streams : ReaderLoop(s)
    \/ \E s \in Streams : ReaderEmit(s)
    \/ \E s \in Streams : ReaderFlush(s)
    \/ \E s \in Streams : ReaderFlushEmit(s)
    \/ StepWait

SpecStep == InitStep /\ [][NextStep]_vars

\* ================================================== deployment commands
\* clone_index_tts_repo (with repair_existing_repo), init_git_lfs and
\* setup_index_tts_env: each runs its steps through run_command_with_streaming.

\* most bytes the command of a deployment step writes (stdout and stderr together)
MaxStepOutput == 1

Ops == {"clone", "init_lfs", "setup_env"}

\* target_dir on disk: nothing there, a plain file, an empty directory, a
\* directory with files that is no working copy, a working copy without
\* pyproject.toml or webui.py, a working copy with both.
TargetKinds == {"absent", "file", "empty_dir", "files_dir",
                "repo_incomplete", "repo_complete"}

\* target_path.exists() && target_path.is_dir()
IsDir(k) == k \in {"empty_dir", "files_dir", "repo_incomplete", "repo_complete"}

\* repo_has_core_files: pyproject.exists() && webui.exists()
repo_has_core_files(k) == k = "repo_complete"

\* Ok(()) or the Err of run_command_with_streaming, once it has returned
StepResult == [kind |-> mres, step |-> step, excerpt |-> errOut]

\* what the command of a deployment step may write: text and line breaks
StepBytes == {"a", LF}

ScriptsUpTo(n) ==
    {[s \in Streams |-> IF s = "stdout" THEN oe[1] ELSE oe[2]] :
        oe \in {x \in SeqsUpTo(StepBytes, n) \X SeqsUpTo(StepBytes, n) :
                   Len(x[1]) + Len(x[2]) <= n}}

InitDeploy ==
    /\ InitSrv
    /\ StepOff
    /\ ReclaimOff
    /\ op \in Ops
    /\ opc = "entry"
    /\ ores = Res("none")
    /\ err = Res("none")
    /\ calls = <<>>
    /\ rets = <<>>
    /\ tgt \in TargetKinds
    /\ checks = 0

\* run_command_with_streaming(app_handle, name, command) is called: a new
\* invocation with its own accumulator and forwarding tasks. The forwarding
\* tasks of an earlier invocation are detached; from here on the variables of
\* the Step Runner are those of the new invocation.
CallStep(name) ==
    /\ calls' = Append(calls, name)
    /\ step' = name
    /\ script' \in ScriptsUpTo(MaxStepOutput)
    /\ nread' = [s \in Streams |-> 0]
    /\ exit' = "unspawned"
    /\ rpc' = [s \in Streams |-> "off"]
    /\ carry' = [s \in Streams |-> <<>>]
    /\ line' = [s \in Streams |-> <<>>]
    /\ fwd' = [s \in Streams |-> <<>>]
    /\ acc' = <<>>
    /\ mpc' = "spawn"
    /\ mres' = "none"
    /\ errOut' = <<>>
    /\ UNCHANGED sink

\* the awaited run_command_with_streaming has returned
StepReturned == mpc = "done"

\* the deployment command returns r
DeployFinish(r) ==
    /\ opc' = "done"
    /\ ores' = r

\* emit_core_deploy_log(&app_handle, "clone_repo", stream, msg), called by
\* clone_index_tts_repo itself; a failed emit is ignored
EmitCloneLog(stream, msg) ==
    \E emitOk \in BOOLEAN :
        sink' = IF emitOk
                   THEN [sink EXCEPT ![stream] =
                            Append(@, [step |-> "clone_repo", stream |-> stream, line |-> <<msg>>])]
                   ELSE sink

\* a git reset --hard / git clean -fdx that has run may have brought the
\* missing files of a working copy back
AfterRepairStep(k) == IF k = "repo_incomplete" THEN {k, "repo_complete"} ELSE {k}

\* the state of the running invocation, the Sink apart
invVars == <<step, script, nread, exit, rpc, carry, line, fwd, acc, mpc, mres, errOut>>

\* ---------------------------------------------------- clone_index_tts_repo
\* if target_path.exists() && target_path.is_dir() { .. }
CloneCheckTarget ==
    /\ op = "clone" /\ opc = "entry"
    /\ opc' = IF IsDir(tgt) THEN "c_gitcheck" ELSE "c_clone"
    /\ UNCHANGED <<op, ores, err, calls, rets, tgt, checks>>
    /\ UNCHANGED <<srvVars, stepVars, rclVars>>

\* git -C target_dir rev-parse --is-inside-work-tree, .output().await: it
\* cannot be run, or it succeeds (a working copy, or a directory below one),
\* or it fails (a directory outside every working copy, or a working copy git
\* refuses to open).
CloneGitCheck ==
    /\ opc = "c_gitcheck"
    /\ \E out \in {"io_err", "inside", "outside"} :
          /\ CASE out = "io_err" -> DeployFinish(Res("ErrGitCheck"))
               [] out = "inside" -> opc' = "c_core" /\ UNCHANGED ores
               [] out = "outside" -> opc' = "c_empty" /\ UNCHANGED ores
    /\ UNCHANGED <<op, err, calls, rets, tgt, checks>>
    /\ UNCHANGED <<srvVars, stepVars, rclVars>>

\* if repo_has_core_files(target_path) { emit; return Ok } else { emit; repair }
CloneCoreFiles ==
    /\ opc = "c_core"
    /\ checks' = checks + 1
    /\ IF repo_has_core_files(tgt)
          THEN /\ EmitCloneLog("stdout", <<"target exists, clone skipped">>)
               /\ DeployFinish(Res("SUCCESS"))
          ELSE /\ EmitCloneLog("stderr", <<"core files missing, repairing">>)
               /\ opc' = "r_reset"
               /\ UNCHANGED ores
    /\ UNCHANGED <<op, err, calls, rets, tgt>>
    /\ UNCHANGED <<srvVars, invVars, rclVars>>

\* repair_existing_repo: run_command_with_streaming(.., "repair_repo_reset", reset_cmd)
RepairReset ==
    /\ opc = "r_reset"
    /\ CallStep("repair_repo_reset")
    /\ opc' = "r_reset_wait"
    /\ UNCHANGED <<op, ores, err, rets, tgt, checks>>
    /\ UNCHANGED <<srvVars, rclVars>>

\* clone_index_tts_repo's handling of Err(err) from repair_existing_repo:
\* emit "repair failed: {err}" and return the could-not-be-repaired error
RepairFailed ==
    /\ err' = StepResult
    /\ EmitCloneLog("stderr", <<"repair failed", StepResult.kind, StepResult.step>>
                                 \o StepResult.excerpt)
    /\ DeployFinish(Res("ErrRepairFailed"))
    /\ UNCHANGED <<calls, invVars>>

\* the reset step has returned: `?`, then
\* run_command_with_streaming(.., "repair_repo_clean", clean_cmd)
RepairClean ==
    /\ opc = "r_reset_wait"
    /\ StepReturned
    /\ rets' = Append(rets, mres)
    /\ tgt' \in (IF mres = "ErrSpawn" THEN {tgt} ELSE AfterRepairStep(tgt))
    /\ IF mres = "Ok"
          THEN /\ CallStep("repair_repo_clean")
               /\ opc' = "r_clean_wait"
               /\ UNCHANGED <<ores, err>>
          ELSE RepairFailed
    /\ UNCHANGED <<op, checks>>
    /\ UNCHANGED <<srvVars, rclVars>>

\* the clean step has returned: `?`, Ok(()), and back in clone_index_tts_repo
RepairReturn ==
    /\ opc = "r_clean_wait"
    /\ StepReturned
    /\ rets' = Append(rets, mres)
    /\ IF mres = "Ok"
          THEN /\ opc' = "c_recheck"
               /\ UNCHANGED <<ores, err, calls, stepVars>>
          ELSE RepairFailed
    /\ UNCHANGED <<op, tgt, checks>>
    /\ UNCHANGED <<srvVars, rclVars>>

\* Mutant of CloneRecheck: a working copy still incomplete after the repair
\* is repaired again.
CloneRecheckRepairsAgain ==
    /\ opc = "c_recheck"
    /\ checks' = checks + 1
    /\ IF repo_has_core_files(tgt)
          THEN /\ EmitCloneLog("stdout", <<"repaired, clone skipped">>)
               /\ DeployFinish(Res("SUCCESS"))
          ELSE /\ opc' = "r_reset"
               /\ UNCHANGED <<ores, sink>>
    /\ UNCHANGED <<op, err, calls, rets, tgt>>
    /\ UNCHANGED <<srvVars, invVars, rclVars>>

\* after the repair: if repo_has_core_files(target_path) { emit; return Ok }
\* return Err(".. still missing required files after repair ..")
CloneRecheck ==
    /\ opc = "c_recheck"
    /\ checks' = checks + 1
    /\ IF repo_has_core_files(tgt)
          THEN /\ EmitCloneLog("stdout", <<"repaired, clone skipped">>)
               /\ DeployFinish(Res("SUCCESS"))
          ELSE /\ DeployFinish(Res("ErrStillMissing"))
               /\ UNCHANGED sink
    /\ UNCHANGED <<op, err, calls, rets, tgt>>
    /\ UNCHANGED <<srvVars, invVars, rclVars>>

\* Mutant of CloneEmptyDir: the directory is removed without looking whether
\* it is empty.
CloneEmptyDirRemovesAnything ==
    /\ opc = "c_empty"
    /\ \E rmOk \in BOOLEAN :
          /\ EmitCloneLog("stdout", <<"empty directory, removed">>)
          /\ IF rmOk
                THEN /\ tgt' = "absent"
                     /\ opc' = "c_clone"
                     /\ UNCHANGED ores
                ELSE /\ DeployFinish(Res("ErrRemoveDir"))
                     /\ UNCHANGED tgt
    /\ UNCHANGED <<op, err, calls, rets, checks>>
    /\ UNCHANGED <<srvVars, invVars, rclVars>>

\* match directory_is_empty(target_path) { Ok(true) => { emit; remove_dir_all? }
\* Ok(false) => return Err, Err(e) => return Err(e) }
CloneEmptyDir ==
    /\ opc = "c_empty"
    /\ \E readOk \in BOOLEAN, rmOk \in BOOLEAN :
          CASE ~readOk ->
                  /\ DeployFinish(Res("ErrInspect"))
                  /\ UNCHANGED <<tgt, sink>>
            [] readOk /\ tgt # "empty_dir" ->
                  /\ DeployFinish(Res("ErrNotEmpty"))
                  /\ UNCHANGED <<tgt, sink>>
            [] readOk /\ tgt = "empty_dir" ->
                  /\ EmitCloneLog("stdout", <<"empty directory, removed">>)
                  /\ IF rmOk
                        THEN /\ tgt' = "absent"
                             /\ opc' = "c_clone"
                             /\ UNCHANGED ores
                        ELSE /\ DeployFinish(Res("ErrRemoveDir"))
                             /\ UNCHANGED tgt
    /\ UNCHANGED <<op, err, calls, rets, checks>>
    /\ UNCHANGED <<srvVars, invVars, rclVars>>

\* run_command_with_streaming(&app_handle, "clone_repo", command)
CloneRun ==
    /\ opc = "c_clone"
    /\ CallStep("clone_repo")
    /\ opc' = "c_clone_wait"
    /\ UNCHANGED <<op, ores, err, rets, tgt, checks>>
    /\ UNCHANGED <<srvVars, rclVars>>

\* .await?; Ok("SUCCESS"). A clone that succeeded has created the working copy.
CloneReturn ==
    /\ opc = "c_clone_wait"
    /\ StepReturned
    /\ rets' = Append(rets, mres)
    /\ tgt' \in (IF mres = "Ok" /\ tgt = "absent"
                    THEN {"repo_complete", "repo_incomplete"} ELSE {tgt})
    /\ DeployFinish(IF mres = "Ok" THEN Res("SUCCESS") ELSE StepResult)
    /\ UNCHANGED <<op, err, calls, checks>>
    /\ UNCHANGED <<srvVars, stepVars, rclVars>>

\* ------------------------------------------------------------ init_git_lfs
\* run_command_with_streaming(&app_handle, "init_lfs", install_cmd)
InitGitLfs ==
    /\ op = "init_lfs" /\ opc = "entry"
    /\ CallStep("init_lfs")
    /\ opc' = "l_install_wait"
    /\ UNCHANGED <<op, ores, err, rets, tgt, checks>>
    /\ UNCHANGED <<srvVars, rclVars>>

\* .await?; run_command_with_streaming(&app_handle, "init_lfs", pull_cmd)
InitGitLfsPull ==
    /\ opc = "l_install_wait"
    /\ StepReturned
    /\ rets' = Append(rets, mres)
    /\ IF mres = "Ok"
          THEN /\ CallStep("init_lfs")
               /\ opc' = "l_pull_wait"
               /\ UNCHANGED ores
          ELSE /\ DeployFinish(StepResult)
               /\ UNCHANGED <<calls, stepVars>>
    /\ UNCHANGED <<op, err, tgt, checks>>
    /\ UNCHANGED <<srvVars, rclVars>>

\* .await?; Ok("SUCCESS")
InitGitLfsReturn ==
    /\ opc = "l_pull_wait"
    /\ StepReturned
    /\ rets' = Append(rets, mres)
    /\ DeployFinish(IF mres = "Ok" THEN Res("SUCCESS") ELSE StepResult)
    /\ UNCHANGED <<op, err, calls, tgt, checks>>
    /\ UNCHANGED <<srvVars, stepVars, rclVars>>

\* ----------------------------------------------------- setup_index_tts_env
\* run_command_with_streaming(&app_handle, "setup_env", command)   (uv sync)
SetupIndexTtsEnv ==
    /\ op = "setup_env" /\ opc = "entry"
    /\ CallStep("setup_env")
    /\ opc' = "e_sync_wait"
    /\ UNCHANGED <<op, ores, err, rets, tgt, checks>>
    /\ UNCHANGED <<srvVars, rclVars>>

\* Mutant of SetupInstallGradio: the result of the sync step is dropped
\* (let _ = ..) and gradio is installed whatever it was.
SetupInstallGradioIgnoresFailure ==
    /\ opc = "e_sync_wait"
    /\ StepReturned
    /\ rets' = Append(rets, mres)
    /\ CallStep("install_gradio")
    /\ opc' = "e_gradio_wait"
    /\ UNCHANGED <<op, ores, err, tgt, checks>>
    /\ UNCHANGED <<srvVars, rclVars>>

\* .await?; run_command_with_streaming(&app_handle, "install_gradio", install_gradio_cmd)
SetupInstallGradio ==
    /\ opc = "e_sync_wait"
    /\ StepReturned
    /\ rets' = Append(rets, mres)
    /\ IF mres = "Ok"
          THEN /\ CallStep("install_gradio")
               /\ opc' = "e_gradio_wait"
               /\ UNCHANGED ores
          ELSE /\ DeployFinish(StepResult)
               /\ UNCHANGED <<calls, stepVars>>
    /\ UNCHANGED <<op, err, tgt, checks>>
    /\ UNCHANGED <<srvVars, rclVars>>

\* .await?; Ok("SUCCESS")
SetupReturn ==
    /\ opc = "e_gradio_wait"
    /\ StepReturned
    /\ rets' = Append(rets, mres)
    /\ DeployFinish(IF mres = "Ok" THEN Res("SUCCESS") ELSE StepResult)
    /\ UNCHANGED <<op, err, calls, tgt, checks>>
    /\ UNCHANGED <<srvVars, stepVars, rclVars>>

NextDeploy ==
    \/ CloneCheckTarget
    \/ CloneGitCheck
    \/ CloneCoreFiles
    \/ RepairReset
    \/ RepairClean
    \/ RepairReturn
    \/ CloneRecheck
    \/ CloneEmptyDir
    \/ CloneRun
    \/ CloneReturn
    \/ InitGitLfs
    \/ InitGitLfsPull
    \/ InitGitLfsReturn
    \/ SetupIndexTtsEnv
    \/ SetupInstallGradio
    \/ SetupReturn
    \/ NextStep

SpecDeploy == InitDeploy /\ [][NextDeploy]_vars

\* ============================================== the server's log forwarders
\* The two tasks start_index_tts_server spawns for the server it started:
\* BufReader::new(stdout).lines(), and for every line
\* app_handle.emit("server-log-stdout", line).unwrap(); the same for stderr.
\* script, nread, rpc, line and sink are here those of the server's streams.

\* the server process whose streams are forwarded
LoggedServer == 1

\* The state after start_index_tts_server has returned Ok(Starting): the
\* handle is stored and both forwarding tasks are at their first next_line.
InitServerLog ==
    /\ handle = LoggedServer
    /\ mutex = None
    /\ pstate = [p \in Procs |-> IF p = LoggedServer THEN "alive" ELSE "none"]
    /\ pport = [p \in Procs |-> ServerPort]
    /\ listening = FALSE
    /\ pc = [c \in Callers |-> "idle"]
    /\ child = [c \in Callers |-> None]
    /\ result = [c \in Callers |-> "none"]
    /\ attempts = [c \in Callers |-> 0]
    /\ probe = [c \in Callers |-> "none"]
    /\ via = "start"
    /\ starting = {LoggedServer}
    /\ dropped = {}
    /\ DeployOff
    /\ ReclaimOff
    /\ step = "none"
    /\ script \in {[s \in Streams |-> IF s = "stdout" THEN oe[1] ELSE oe[2]] :
                      oe \in {x \in SeqsUpTo(Bytes, MaxOutput) \X SeqsUpTo(Bytes, MaxOutput) :
                                 Len(x[1]) + Len(x[2]) <= MaxOutput}}
    /\ nread = [s \in Streams |-> 0]
    /\ exit = "unspawned"
    /\ rpc = [s \in Streams |-> "next_line"]
    /\ carry = [s \in Streams |-> <<>>]
    /\ line = [s \in Streams |-> <<>>]
    /\ fwd = [s \in Streams |-> <<>>]
    /\ acc = <<>>
    /\ sink = [s \in Streams |-> <<>>]
    /\ mpc = "off"
    /\ mres = "none"
    /\ errOut = <<>>

\* Lines::next_line drops the "\n" and a "\r" before it
StripCr(l) == IF l # <<>> /\ l[Len(l)] = CR THEN SubSeq(l, 1, Len(l) - 1) ELSE l

\* the line is valid UTF-8 (next_line returns Err(InvalidData) otherwise)
ValidUtf8(l) == \A i \in 1..Len(l) : l[i] # "xFF"

\* while let Ok(Some(line)) = reader.next_line().await: the next line once the
\* server has written it whole, or what is left at end-of-stream; None at
\* end-of-stream, or Err (a failed read, invalid UTF-8) end the loop and the task.
ServerLogNextLine(s) ==
    /\ rpc[s] = "next_line"
    /\ LET rest == SubSeq(script[s], nread[s] + 1, Len(script[s]))
           pos == FindLF(rest)
           raw == IF pos # 0 THEN SubSeq(rest, 1, pos - 1) ELSE rest
       IN /\ pos = 0 => pstate[LoggedServer] # "alive"
          /\ \E readOk \in BOOLEAN :
                IF readOk /\ rest # <<>> /\ ValidUtf8(raw)
                   THEN /\ line' = [line EXCEPT ![s] = StripCr(raw)]
                        /\ rpc' = [rpc EXCEPT ![s] = "emit"]
                        /\ nread' = [nread EXCEPT ![s] =
                                        IF pos # 0 THEN @ + pos ELSE Len(script[s])]
                   ELSE /\ rpc' = [rpc EXCEPT ![s] = "ended"]
                        /\ nread' = [nread EXCEPT ![s] =
                                        IF ~readOk THEN @
                                        ELSE IF pos # 0 THEN @ + pos ELSE Len(script[s])]
                        /\ UNCHANGED line
    /\ UNCHANGED <<step, script, exit, carry, fwd, acc, sink, mpc, mres, errOut>>
    /\ UNCHANGED <<srvVars, depVars, rclVars>>

\* app_handle.emit("server-log-<stream>", line).unwrap(): an Err from emit
\* panics the task, which ends it; the rest of the stream is never read.
ServerLogEmit(s) ==
    /\ rpc[s] = "emit"
    /\ \E emitOk \in BOOLEAN :
          IF emitOk
             THEN /\ sink' = [sink EXCEPT ![s] =
                                 Append(@, [step |-> "none", stream |-> s, line |-> line[s]])]
                  /\ rpc' = [rpc EXCEPT ![s] = "next_line"]
             ELSE /\ rpc' = [rpc EXCEPT ![s] = "panicked"]
                  /\ UNCHANGED sink
    /\ line' = [line EXCEPT ![s] = <<>>]
    /\ UNCHANGED <<step, script, nread, exit, carry, fwd, acc, mpc, mres, errOut>>
    /\ UNCHANGED <<srvVars, depVars, rclVars>>

NextServerLog ==
    \/ \E s \in Streams : ServerLogNextLine(s)
    \/ \E s \in Streams : ServerLogEmit(s)
    \/ \E p \in Procs : ProcExit(p)

SpecServerLog == InitServerLog /\ [][NextServerLog]_vars

\* C16: a failed emission to the Sink never ends a forwarding task of the
\* supervised server: after a failed emit the task goes on to its next line,
\* and it stops only at end-of-stream or at a read error.
C16_EmitFailureKeepsForwarding ==
    \A s \in Streams : rpc[s] # "panicked"

\* ================================================= Port Reclaimer, PID by PID
\* ensure_port_closed with force_kill_port followed one PID at a time: a stop
\* call that found the slot empty has reached ensure_port_closed(7860).
MaxPids == 2

Pids == 1..MaxPids

\* the caller whose stop call is followed
Reclaimer == 1

\* all orderings of a set of PIDs
RECURSIVE Orderings(_)
Orderings(S) ==
    IF S = {} THEN {<<>>}
    ELSE UNION {{<<x>> \o o : o \in Orderings(S \ {x})} : x \in S}

InitReclaim ==
    /\ StepOff
    /\ DeployOff
    /\ handle = None
    /\ mutex = None
    /\ pstate = [p \in Procs |-> "none"]
    /\ pport = [p \in Procs |-> ServerPort]
    /\ pc = [c \in Callers |-> IF c = Reclaimer THEN "e_probe" ELSE "idle"]
    /\ child = [c \in Callers |-> None]
    /\ result = [c \in Callers |-> "none"]
    /\ attempts = [c \in Callers |-> 0]
    /\ probe = [c \in Callers |-> "none"]
    /\ via = "none"
    /\ starting = {}
    /\ dropped = {}
    /\ owners \in SUBSET Pids
    /\ listening = (owners # {})
    /\ pids = <<>>
    /\ killed = {}
    /\ abortAt = <<>>

\* lsof -ti :port (Get-NetTCPConnection on Windows). Failing to run the query
\* is an error; its output lists the owners it can see, in some order; an
\* empty output makes force_kill_port return Ok(()).
ForceKillQuery(c) ==
    /\ pc[c] = "e_kill"
    /\ \/ /\ Finish(c, "ErrForceKill")
          /\ abortAt' = <<owners>>
          /\ UNCHANGED pids
       \/ \E seen \in SUBSET owners : \E o \in Orderings(seen) :
             /\ pids' = o
             /\ pc' = [pc EXCEPT ![c] = IF o = <<>> THEN "e_sleep" ELSE "e_pids"]
             /\ UNCHANGED <<result, abortAt>>
    /\ UNCHANGED <<handle, mutex, pstate, pport, listening, child, attempts,
                   probe, via, starting, dropped, owners, killed>>
    /\ UNCHANGED <<stepVars, depVars>>

\* Mutant of ForceKillPid: a PID that cannot be killed is skipped and the loop
\* goes on with the next one.
ForceKillPidSkipsFailure(c) ==
    /\ pc[c] = "e_pids"
    /\ pids # <<>>
    /\ \E ok \in BOOLEAN :
          /\ ok => Head(pids) \in owners
          /\ owners' = IF ok THEN owners \ {Head(pids)} ELSE owners
          /\ killed' = IF ok THEN killed \cup {Head(pids)} ELSE killed
          /\ listening' = (owners' # {})
          /\ pids' = Tail(pids)
          /\ pc' = [pc EXCEPT ![c] = IF Tail(pids) = <<>> THEN "e_sleep" ELSE "e_pids"]
          /\ UNCHANGED <<result, abortAt>>
    /\ UNCHANGED <<handle, mutex, pstate, pport, child, attempts, probe, via,
                   starting, dropped>>
    /\ UNCHANGED <<stepVars, depVars>>

\* one iteration of `for pid in stdout.lines()`: kill -9 pid (taskkill /PID pid
\* /F). Failing to run the command and a non-zero exit status both return Err;
\* killing a PID that has exited fails.
ForceKillPid(c) ==
    /\ pc[c] = "e_pids"
    /\ pids # <<>>
    /\ \E ok \in BOOLEAN :
          /\ ok => Head(pids) \in owners
          /\ IF ok
                THEN /\ owners' = owners \ {Head(pids)}
                     /\ killed' = killed \cup {Head(pids)}
                     /\ listening' = (owners' # {})
                     /\ pids' = Tail(pids)
                     /\ pc' = [pc EXCEPT ![c] = IF Tail(pids) = <<>>
                                                   THEN "e_sleep" ELSE "e_pids"]
                     /\ UNCHANGED <<result, abortAt>>
                ELSE /\ Finish(c, "ErrForceKill")
                     /\ abortAt' = <<owners>>
                     /\ UNCHANGED <<owners, killed, listening, pids>>
    /\ UNCHANGED <<handle, mutex, pstate, pport, child, attempts, probe, via,
                   starting, dropped>>
    /\ UNCHANGED <<stepVars, depVars>>

\* force_kill_port returned Ok(()): sleep(Duration::from_millis(300)).await and
\* the for loop's next iteration
ReclaimSleep(c) ==
    /\ pc[c] = "e_sleep"
    /\ attempts' = [attempts EXCEPT ![c] = @ + 1]
    /\ pc' = [pc EXCEPT ![c] = IF attempts[c] + 1 < MAX_ATTEMPTS
                                  THEN "e_probe" ELSE "e_final"]
    /\ UNCHANGED <<handle, mutex, pstate, pport, listening, child, result,
                   probe, via, starting, dropped>>
    /\ UNCHANGED <<stepVars, depVars, rclVars>>

\* a process holding the port exits by itself
OwnerExit(q) ==
    /\ q \in owners
    /\ owners' = owners \ {q}
    /\ listening' = (owners' # {})
    /\ UNCHANGED <<handle, mutex, pstate, pport, pc, child, result, attempts,
                   probe, via, starting, dropped, pids, killed, abortAt>>
    /\ UNCHANGED <<stepVars, depVars>>

NextReclaim ==
    \/ EnsureProbe(Reclaimer)
    \/ ForceKillQuery(Reclaimer)
    \/ ForceKillPid(Reclaimer)
    \/ ReclaimSleep(Reclaimer)
    \/ EnsureFinal(Reclaimer)
    \/ \E q \in Pids : OwnerExit(q)

SpecReclaim == InitReclaim /\ [][NextReclaim]_vars


\* ------------------------------------------------- Step Runner: the claims
\* A text split on the line feed; a non-empty rest after the last line feed
\* is the final line.
RECURSIVE SplitLines(_)
SplitLines(t) ==
    LET pos == FindLF(t) IN
       IF pos = 0
          THEN IF t = <<>> THEN <<>> ELSE <<t>>
          ELSE <<SubSeq(t, 1, pos - 1)>> \o SplitLines(SubSeq(t, pos + 1, Len(t)))

\* The lines of a whole byte stream: decoded, every "\r\n", "\r" and "\n"
\* turned into one break, and split on that break.
ExpectedLines(bs) == SplitLines(ReplaceCr(ReplaceCrLf(FromUtf8Lossy(bs))))

IsSubstring(a, b) ==
    \E i \in 0..(Len(b) - Len(a)) : SubSeq(b, i + 1, i + Len(a)) = a

\* C8: when the command exits non-zero, the error's stderr text contains every
\* stderr line the command emitted, joined in emission order, however the
\* stderr forwarder and the wait for the exit interleave.
C8_FailureCarriesEveryStderrLine ==
    (mpc = "done" /\ mres = "ErrStepFailed")
        => IsSubstring(Join(ExpectedLines(script["stderr"])), errOut)

\* C9: once a forwarder has reached end-of-stream, the lines it passed to
\* forward_line are the lines of the stream's text, whatever the reads were.
C9_ForwardedLinesAreTheStreamsLines ==
    \A s \in Streams : rpc[s] = "eof" => fwd[s] = ExpectedLines(script[s])

\* C10: every entry of the stderr accumulator is a non-empty line, every
\* stderr line the Sink received is already in the accumulator, and no empty
\* line reaches the Sink.
C10_OnlyNonEmptyLinesRetained ==
    /\ \A i \in 1..Len(acc) : acc[i] # <<>>
    /\ \A i \in 1..Len(sink["stderr"]) :
          \E j \in 1..Len(acc) : acc[j] = sink["stderr"][i].line
    /\ \A s \in Streams : \A i \in 1..Len(sink[s]) : sink[s][i].line # <<>>

\* .unwrap_or_else(|_| "command failed".to_string()): the text used in place
\* of the joined accumulator when its lock is poisoned. No task can panic while
\* it holds that lock (the push is the only statement under the guard), so
\* StepWait never takes this arm.
Placeholder == <<"command failed">>

\* Err(format!("{} failed: {}", step, stderr_output))
StepError == [step |-> step, excerpt |-> errOut]

\* C11: when the command exits non-zero, the error names the step; its excerpt
\* is the placeholder when the accumulated stderr is empty (the command wrote
\* nothing to stderr) and the newline-joined accumulator otherwise.
C11_EmptyStderrGetsPlaceholder ==
    (mpc = "done" /\ mres = "ErrStepFailed")
        => /\ StepError.step \in Steps
           /\ \E k \in 0..Len(acc) :
                 LET joined == SubSeq(acc, 1, k) IN
                    StepError.excerpt = IF joined = <<>> THEN Placeholder
                                                         ELSE Join(joined)
           /\ script["stderr"] = <<>> => StepError.excerpt = Placeholder

IsPrefix(a, b) == Len(a) <= Len(b) /\ a = SubSeq(b, 1, Len(a))

NonEmptyLines(ls) == SelectSeq(ls, LAMBDA l : l # <<>>)

\* a is b with some entries left out
RECURSIVE IsSubsequence(_, _)
IsSubsequence(a, b) ==
    IF a = <<>> THEN TRUE
    ELSE IF b = <<>> THEN FALSE
    ELSE IF a[1] = b[1] THEN IsSubsequence(Tail(a), Tail(b))
    ELSE IsSubsequence(a, Tail(b))

\* the lines of the events the Sink got for stream s, in the order it got them
SinkLines(s) == [i \in 1..Len(sink[s]) |-> sink[s][i].line]

\* C18: at every moment, per stream, the non-empty lines forwarded so far are
\* the first non-empty lines the command wrote on that stream, in its order;
\* the Sink has them in that order (less those whose emit failed), the
\* accumulator has the stderr lines in the order they were forwarded, and each
\* event names the invocation's step and its stream. The two forwarders are
\* independent: whether one can take its next step depends on its own position
\* and on the command only, never on where the other stands.
C18_PerStreamOrderPreserved ==
    /\ \A s \in Streams :
          /\ IsPrefix(NonEmptyLines(fwd[s]), NonEmptyLines(ExpectedLines(script[s])))
          /\ IsSubsequence(SinkLines(s), NonEmptyLines(fwd[s]))
          /\ \A i \in 1..Len(sink[s]) :
                sink[s][i].step = step /\ sink[s][i].stream = s
          /\ (rpc[s] = "read" /\ (Avail(s) > 0 \/ exit \in {"ok", "fail"}))
                => ENABLED ReaderRead(s)
          /\ rpc[s] \in {"loop", "emit", "flush", "flush_emit"}
                => ENABLED (ReaderLoop(s) \/ ReaderEmit(s) \/ ReaderFlush(s)
                               \/ ReaderFlushEmit(s))
    /\ IsPrefix(acc, fwd["stderr"]) /\ IsPrefix(fwd["stderr"], acc)

\* C18 witness: the command wrote two different lines on stderr; both are in
\* the accumulator and at the Sink in that order, tagged with the step, while
\* the stdout forwarder has not taken a step.
C18_Witness ==
    /\ rpc["stderr"] = "eof" /\ rpc["stdout"] = "read"
    /\ acc = <<<<"a">>, <<"U+FFFD">>>>
    /\ SinkLines("stderr") = acc
    /\ sink["stderr"][1].step = "clone_repo"

\* ------------------------------------------- deployment commands: the claims
\* the steps of the composite operation that is running, in program order;
\* for clone_index_tts_repo they are those of repair_existing_repo once the
\* repair has begun, and the single clone step otherwise
Plan ==
    CASE op = "init_lfs" -> <<"init_lfs", "init_lfs">>
      [] op = "setup_env" -> <<"setup_env", "install_gradio">>
      [] op = "clone" /\ calls # <<>> /\ calls[1] = "repair_repo_reset"
            -> <<"repair_repo_reset", "repair_repo_clean">>
      [] OTHER -> <<"clone_repo">>

AllOk(rs) == \A i \in 1..Len(rs) : rs[i] = "Ok"

\* the Err of the call that was made last
LastStepError ==
    [kind |-> rets[Len(rets)], step |-> calls[Len(calls)], excerpt |-> errOut]

\* C12: repair_existing_repo, init_git_lfs and setup_index_tts_env run their
\* steps in order and stop at the first failure: a step is called only after
\* every earlier step returned Ok, so after a step that failed to spawn or
\* exited non-zero no later command is spawned; the error passed on is the
\* error of that first failing step; nothing but the steps of the plan is ever
\* run (no rollback), and nothing is run after the operation has returned.
C12_StopsAtFirstFailure ==
    /\ [](/\ IsPrefix(calls, Plan)
          /\ Len(rets) <= Len(calls) /\ Len(calls) <= Len(rets) + 1
          /\ AllOk(SubSeq(rets, 1, Len(calls) - 1))
          /\ (opc = "done" /\ calls # <<>>) =>
                /\ Len(rets) = Len(calls)
                /\ IF AllOk(rets)
                      THEN /\ calls = Plan
                           /\ err = Res("none")
                           /\ ores.kind \in {"SUCCESS", "ErrStillMissing"}
                      ELSE /\ rets[Len(rets)] \in {"ErrSpawn", "ErrWait", "ErrStepFailed"}
                           /\ IF Plan[1] = "repair_repo_reset"
                                 THEN err = LastStepError /\ ores = Res("ErrRepairFailed")
                                 ELSE ores = LastStepError)
    /\ [][opc = "done" => (calls' = calls /\ rets' = rets /\ ores' = ores)]_vars

\* C12 witness: uv sync wrote to stderr and exited non-zero; setup_index_tts_env
\* returned that error and gradio was never installed.
C12_Witness ==
    /\ op = "setup_env" /\ opc = "done"
    /\ calls = <<"setup_env">> /\ rets = <<"ErrStepFailed">>
    /\ ores = [kind |-> "ErrStepFailed", step |-> "setup_env", excerpt |-> <<"a">>]

\* clone_index_tts_repo found a working copy without its core files and has
\* begun the repair
RepairBegun == op = "clone" /\ calls # <<>> /\ calls[1] = "repair_repo_reset"

\* C13 as claimed: a call that found an incomplete working copy has, when it
\* returns, run the reset and the clean once each and made exactly one
\* re-check; it returned the remove-the-folder error exactly if the re-check
\* failed, and it started no clone.
C13_RepairOnceThenRecheck ==
    (RepairBegun /\ tgt \in {"repo_incomplete", "repo_complete"} /\ opc = "done")
        => /\ calls = <<"repair_repo_reset", "repair_repo_clean">>
           /\ checks = 2
           /\ ores = IF repo_has_core_files(tgt) THEN Res("SUCCESS")
                                                 ELSE Res("ErrStillMissing")

\* C13 amended: once the completeness check has failed, the reset is run once
\* and the clean at most once, only after the reset returned Ok. When both
\* returned Ok exactly one re-check follows, and the call returns SUCCESS or,
\* if the files are still missing, the remove-the-folder error. When a repair
\* step failed there is no re-check and the call returns the
\* could-not-be-repaired error. No second repair cycle and no clone is started
\* in the call, before or after it returns.
C13_AtMostOneRepairCycle ==
    /\ [](op = "clone" =>
            /\ checks <= 2
            /\ checks = 2 => (RepairBegun /\ rets = <<"Ok", "Ok">>)
            /\ RepairBegun =>
                  /\ IsPrefix(calls, <<"repair_repo_reset", "repair_repo_clean">>)
                  /\ checks >= 1
                  /\ Len(calls) = 2 => rets[1] = "Ok"
                  /\ opc = "done" =>
                        IF rets = <<"Ok", "Ok">>
                           THEN /\ checks = 2
                                /\ ores = IF repo_has_core_files(tgt)
                                             THEN Res("SUCCESS")
                                             ELSE Res("ErrStillMissing")
                           ELSE /\ checks = 1
                                /\ Len(rets) = Len(calls)
                                /\ rets[Len(rets)] # "Ok"
                                /\ ores = Res("ErrRepairFailed"))
    /\ [][opc = "done" => (calls' = calls /\ checks' = checks)]_vars

\* C13 witness: reset and clean both succeeded, the one re-check still found
\* the files missing, and the call returned the remove-the-folder error.
C13_Witness ==
    /\ op = "clone" /\ opc = "done"
    /\ calls = <<"repair_repo_reset", "repair_repo_clean">>
    /\ rets = <<"Ok", "Ok">>
    /\ checks = 2
    /\ ores = Res("ErrStillMissing")

\* the step in which clone_index_tts_repo starts the clone command
CloneStarts == opc = "c_clone" /\ opc' = "c_clone_wait"

\* the clone command has been started in this call
CloneRan == \E i \in 1..Len(calls) : calls[i] = "clone_repo"

\* C24: the clone command is started only when no directory is at the target
\* path, either from the beginning or because the command has just removed
\* it; the command removes the target only when it is an empty directory that
\* the work-tree check rejected. A directory the check rejected that is not
\* empty ends the call with an error, nothing removed, changed, emitted or
\* run. A directory the check accepted as a working copy (the completeness
\* check has been made) never sees the clone command, whatever the
\* completeness check and the repair gave.
C24_CloneOnlyIntoNoDirectory ==
    /\ [](op = "clone" =>
            /\ CloneRan => (calls = <<"clone_repo">> /\ checks = 0)
            /\ checks > 0 => ~CloneRan
            /\ (opc = "done" /\ ores.kind = "ErrNotEmpty")
                  => (calls = <<>> /\ checks = 0 /\ IsDir(tgt) /\ tgt # "empty_dir"))
    /\ [][op = "clone" =>
            /\ CloneStarts => (~IsDir(tgt) /\ checks = 0)
            /\ (tgt' # tgt /\ ~IsDir(tgt'))
                  => (opc = "c_empty" /\ tgt = "empty_dir" /\ tgt' = "absent"
                      /\ opc' = "c_clone")
            /\ (opc = "c_empty" /\ tgt # "empty_dir" /\ opc' # opc)
                  => /\ opc' = "done"
                     /\ ores'.kind \in {"ErrNotEmpty", "ErrInspect"}
                     /\ tgt' = tgt /\ calls' = calls /\ sink' = sink
            /\ (opc \in {"c_core", "c_recheck"} \/ RepairBegun)
                  => opc' \notin {"c_clone", "c_clone_wait", "c_empty"}
         ]_vars

\* C24 witness: an empty directory outside every working copy was removed, the
\* clone command ran once and succeeded.
C24_Witness ==
    /\ op = "clone" /\ opc = "done" /\ ores = Res("SUCCESS")
    /\ calls = <<"clone_repo">> /\ rets = <<"Ok">> /\ checks = 0
    /\ \E i \in 1..Len(sink["stdout"]) :
          sink["stdout"][i].line = <<<<"empty directory, removed">>>>
    /\ tgt = "repo_complete"

\* ======================================================== Server Supervisor
\* The step of caller c in which get_server_status runs (idle -> done in one
\* step is the status command; start and stop pass through other positions).
StatusStep(c) == pc[c] = "idle" /\ pc'[c] = "done"

\* The step in which start's critical section ends (error or store + return).
StartReturn(c) == pc[c] \in {"s_check", "s_spawn"} /\ pc'[c] = "done"

\* C1: at most one server process spawned by start is alive at any time, also
\* while a stop has taken the handle and is awaiting kill/wait.
C1_AtMostOneLiveServer == Cardinality(Alive) <= 1

\* C2: a start that finds a handle held returns the already-running error,
\* spawns nothing and leaves the held handle as it was; a start stores its new
\* handle only in the critical section in which it found the slot empty, so no
\* successful start ever replaces a held handle (two starts cannot both win).
C2_SecondStartRejected ==
    [][\A c \in Callers :
          /\ (pc[c] = "s_check" /\ pc'[c] # pc[c] /\ handle # None)
                => /\ pc'[c] = "done"
                   /\ result'[c] = "ErrAlreadyRunning"
                   /\ handle' = handle
                   /\ pstate' = pstate
          /\ (StartReturn(c) /\ result'[c] = "Starting")
                => /\ handle = None
                   /\ handle' # None
                   /\ pstate[handle'] = "none"
                   /\ pstate'[handle'] = "alive"
      ]_vars

\* C2 witness: one start succeeded, a second one was rejected, and the slot
\* still holds the first start's process.
C2_Witness ==
    \E c1 \in Callers, c2 \in Callers :
        /\ pc[c1] = "done" /\ result[c1] = "Starting"
        /\ pc[c2] = "done" /\ result[c2] = "ErrAlreadyRunning"
        /\ handle # None /\ Spawned = 1

\* C3: whenever stop returns Stopped for a server started with port P, the
\* Port Reclaimer ran for port P and its last probe found P unreachable.
C3_StoppedMeansServerPortFree ==
    \A c \in Callers :
        (pc[c] = "done" /\ result[c] = "Stopped" /\ child[c] # None)
            => (pport[child[c]] = ServerPort /\ probe[c] = "closed")

\* C4: when the kill of the taken handle fails, stop returns the error without
\* a single probe of the Port Reclaimer, and the slot then holds the handle
\* stop had taken, which is the handle held before the call.
C4_KillFailureRestoresHandle ==
    [][\A c \in Callers :
          /\ (pc[c] = "idle" /\ pc'[c] = "t_kill") => child'[c] = handle
          /\ (pc[c] = "t_kill" /\ pc'[c] = "t_restore")
                => (child'[c] = child[c] /\ probe'[c] = "none")
          /\ (pc[c] = "t_restore" /\ pc'[c] # pc[c])
                => /\ pc'[c] = "done"
                   /\ result'[c] = "ErrKill"
                   /\ probe'[c] = "none" /\ attempts'[c] = 0
                   /\ child[c] # None
                   /\ handle' = child[c]
      ]_vars

\* C4 witness: a stop returned the kill error and the slot holds its handle.
C4_Witness ==
    \E c \in Callers :
        /\ pc[c] = "done" /\ result[c] = "ErrKill"
        /\ handle = child[c] /\ handle # None

OwnedByStop(p) == \E c \in Callers : pc[c] \in {"t_kill", "t_restore"} /\ child[c] = p

C6_StatusAsClaimed ==
    [][/\ \A c \in Callers : StatusStep(c) =>
             /\ handle = None => (result'[c] = "Stopped" /\ handle' = None)
             /\ (handle # None /\ pstate[handle] = "alive")
                   => (result'[c] = "Running" /\ handle' = handle)
             /\ (handle # None /\ pstate[handle] # "alive")
                   => (result'[c] = "Stopped" /\ handle' = None)
       /\ (handle = None /\ handle' # None)
             => \E c \in Callers : StartReturn(c) /\ result'[c] = "Starting"
      ]_vars

\* C6 amended: status completes in one step whenever the lock is free, whatever
\* the process does. With no handle it returns Stopped. With a handle it
\* returns the poll error (handle kept) when try_wait fails, else Running
\* (handle kept) for a running process and Stopped (handle cleared, process
\* reaped) for an exited one. A cleared slot is filled again only by a
\* successful start or by stop's restore after a failed kill.
C6_StatusPollsOnce ==
    /\ [](\A c \in Callers :
             (pc[c] = "idle" /\ mutex = None) => ENABLED GetServerStatus(c))
    /\ [][/\ \A c \in Callers : StatusStep(c) =>
                /\ \A p \in Procs : p # handle => pstate'[p] = pstate[p]
                /\ handle = None => (result'[c] = "Stopped" /\ handle' = None)
                /\ (handle # None /\ pstate[handle] = "alive")
                      => (result'[c] \in {"Running", "ErrPoll"} /\ handle' = handle)
                /\ (handle # None /\ pstate[handle] # "alive")
                      => \/ result'[c] = "ErrPoll" /\ handle' = handle
                         \/ /\ result'[c] = "Stopped" /\ handle' = None
                            /\ pstate'[handle] = "reaped"
          /\ (handle = None /\ handle' # None)
                => \E c \in Callers :
                      \/ StartReturn(c) /\ result'[c] = "Starting"
                      \/ pc[c] = "t_restore" /\ result'[c] = "ErrKill"
         ]_vars

\* C6 witness: the process exited, a status call cleared the slot and returned
\* Stopped.
C6_Witness ==
    \E c \in Callers, p \in Procs :
        /\ pc[c] = "done" /\ result[c] = "Stopped" /\ probe[c] = "none"
        /\ handle = None /\ pstate[p] = "reaped" /\ Spawned = 1
        /\ \A d \in Callers : d # c => pc[d] = "idle"

\* C7 as claimed: status returns Running only if the handle now held was put
\* into the empty slot by a start call that returned Starting.
C7_RunningOnlyAfterStart ==
    [][\A c \in Callers :
          (StatusStep(c) /\ result'[c] = "Running") => via = "start"]_vars

\* C7 amended: status returns Running only for a held handle of a process whose
\* start call returned Starting, in the slot since that start or put back by
\* stop's restore; start returns Starting or an error, never Running or
\* Stopped; status leaves an empty slot empty.
C7_RunningOnlyForStartedServer ==
    [][\A c \in Callers :
          /\ (StatusStep(c) /\ result'[c] = "Running")
                => /\ handle # None /\ handle' = handle
                   /\ handle \in starting
                   /\ via \in {"start", "restore"}
          /\ StartReturn(c) => result'[c] \notin {"Running", "Stopped"}
          /\ (StatusStep(c) /\ handle = None) => handle' = None
      ]_vars

\* C7 witness: a status call returned Running for a handle that stop had taken
\* and put back after a failed kill.
C7_Witness ==
    \E c \in Callers :
        /\ pc[c] = "done" /\ result[c] = "Running"
        /\ via = "restore" /\ handle \in starting

\* ------------------------------------------------------------ Port Reclaimer
\* C14: ensure_port_closed entered while nothing listens on the port returns
\* Ok after that one probe: no owner query, no kill and no sleep (the call
\* never reaches force_kill_port and counts no round), and no process or
\* socket is touched. This holds for every call, so repeated calls agree.
C14_ClosedPortNeedsNoKill ==
    /\ [](\A c \in Callers :
             (pc[c] = "e_probe" /\ attempts[c] = 0) => ENABLED EnsureProbe(c))
    /\ [][\A c \in Callers :
             (pc[c] = "e_probe" /\ attempts[c] = 0 /\ ~listening /\ pc'[c] # pc[c])
                => /\ pc'[c] = "done"
                   /\ result'[c] = "Stopped"
                   /\ probe'[c] = "closed"
                   /\ attempts'[c] = 0
                   /\ listening' = listening
                   /\ pstate' = pstate
         ]_vars

\* C14 witness: with no server ever started and nothing listening, two stop
\* calls have both returned Stopped after one probe and no kill round.
C14_Witness ==
    /\ Spawned = 0 /\ ~listening
    /\ \A c \in Callers :
          /\ pc[c] = "done" /\ result[c] = "Stopped"
          /\ child[c] = None /\ attempts[c] = 0 /\ probe[c] = "closed"

\* the positions of a stop call inside ensure_port_closed
InReclaimer(c) == pc[c] \in {"e_probe", "e_kill", "e_final"}

\* C15: ensure_port_closed never starts a sixth kill round and always moves
\* on: every step of it ends the call or leads to the next probe or kill, each
\* completed kill round counts once, and after the fifth the loop is left for
\* the final probe. It returns the port-still-bound error only after exactly
\* five completed rounds and a final probe that found the port reachable, and
\* Ok only after a probe that found it unreachable.
C15_AtMostFiveKillRounds ==
    /\ [](\A c \in Callers :
             /\ attempts[c] <= MAX_ATTEMPTS
             /\ pc[c] \in {"e_probe", "e_kill"} => attempts[c] < MAX_ATTEMPTS
             /\ pc[c] = "e_final" => attempts[c] = MAX_ATTEMPTS
             /\ InReclaimer(c) =>
                   ENABLED (EnsureProbe(c) \/ EnsureKill(c) \/ EnsureFinal(c))
             /\ (pc[c] = "done" /\ result[c] = "ErrPortStillBound")
                   => (attempts[c] = MAX_ATTEMPTS /\ probe[c] = "open"))
    /\ [][\A c \in Callers :
             /\ (pc[c] = "e_probe" /\ pc'[c] # pc[c])
                   => /\ attempts'[c] = attempts[c]
                      /\ IF listening
                            THEN pc'[c] = "e_kill"
                            ELSE /\ pc'[c] = "done" /\ result'[c] = "Stopped"
                                 /\ probe'[c] = "closed"
             /\ (pc[c] = "e_kill" /\ pc'[c] # pc[c])
                   => \/ pc'[c] = "done" /\ result'[c] = "ErrForceKill"
                      \/ /\ attempts'[c] = attempts[c] + 1
                         /\ pc'[c] = IF attempts'[c] < MAX_ATTEMPTS
                                        THEN "e_probe" ELSE "e_final"
             /\ (pc[c] = "e_final" /\ pc'[c] # pc[c])
                   => /\ pc'[c] = "done"
                      /\ result'[c] = IF listening THEN "ErrPortStillBound"
                                                   ELSE "Stopped"
                      /\ probe'[c] = IF listening THEN "open" ELSE "closed"
         ]_vars

\* C15 witness: five kill rounds were completed, the port was still reachable
\* at the final probe, and stop returned the port-still-bound error.
C15_Witness ==
    \E c \in Callers :
        /\ pc[c] = "done" /\ result[c] = "ErrPortStillBound"
        /\ attempts[c] = MAX_ATTEMPTS /\ probe[c] = "open" /\ listening

\* ------------------------------------------------------------------- locks
\* the positions at which a command future is suspended in an await (kill,
\* wait, force_kill_port, sleep), has returned, or has not begun
AtAwait(c) == pc[c] \in {"idle", "t_kill", "e_probe", "e_kill", "e_final", "done"}

LaunchErrors == {"ErrNoTargetDir", "ErrNoWebui", "ErrSpawn"}

\* C19: a start that returns because the target directory or webui.py is
\* missing, or because the spawn failed, found the slot empty and leaves it
\* empty, has spawned no process (so there is no stream to forward), releases
\* the lock and changes nothing else of the supervisor's state: a status call
\* made next finds no handle and a start made next is not rejected.
C19_FailedStartChangesNothing ==
    [][\A c \in Callers :
          (StartReturn(c) /\ result'[c] \in LaunchErrors)
             => /\ pc[c] = "s_spawn"
                /\ handle = None /\ handle' = None
                /\ mutex' = None
                /\ pstate' = pstate /\ pport' = pport
                /\ starting' = starting /\ via' = via
                /\ listening' = listening /\ dropped' = dropped
      ]_vars

\* C19 witness: one start failed at the spawn, and the start made after it
\* was not rejected: it stored the handle of the only process ever spawned.
C19_Witness ==
    \E c \in Callers, d \in Callers :
        /\ pc[c] = "done" /\ result[c] = "ErrSpawn"
        /\ pc[d] = "done" /\ result[d] = "Starting"
        /\ handle # None /\ Spawned = 1

\* C20: every live server process is referenced by the held handle or is the
\* one a stop call has taken and is terminating; stop's restore never
\* replaces a handle that a start stored in the meantime.
C20_NoLiveServerUnreferenced ==
    \A p \in Procs : pstate[p] = "alive" => (handle = p \/ OwnedByStop(p))

\* the step in which stop takes the handle out of the slot
StopTakeStep(c) == pc[c] = "idle" /\ pc'[c] \in {"t_kill", "e_probe"}

\* C21: start never polls the child. A start that finds a handle held
\* returns the already-running error whether the process runs or has exited,
\* and no step of a start changes what is known of a process that exists or
\* clears the slot: a held handle leaves the slot only in a status call or in
\* a stop call's take. So after the server has exited a start succeeds only
\* once status or stop has cleared the handle.
C21_StartNeverPolls ==
    [][/\ \A c \in Callers :
             /\ (pc[c] = "s_check" /\ pc'[c] # pc[c] /\ handle # None)
                   => /\ pc'[c] = "done" /\ result'[c] = "ErrAlreadyRunning"
                      /\ handle' = handle
             /\ (pc[c] \in {"s_check", "s_spawn"} /\ pc'[c] # pc[c])
                   => \A p \in Procs : pstate[p] # "none" => pstate'[p] = pstate[p]
             /\ (StartReturn(c) /\ result'[c] = "Starting") => handle = None
       /\ (handle # None /\ handle' # handle)
             => \E c \in Callers :
                   \/ StatusStep(c) /\ result'[c] = "Stopped" /\ handle' = None
                   \/ StopTakeStep(c) /\ handle' = None
                   \/ pc[c] = "t_restore" /\ result'[c] = "ErrKill"
      ]_vars

\* C21 witness: the server has exited, no status or stop call has been made
\* since, and a start was rejected as already running.
C21_Witness ==
    \E c \in Callers :
        /\ pc[c] = "done" /\ result[c] = "ErrAlreadyRunning"
        /\ handle # None /\ pstate[handle] = "exited" /\ via = "start"
        /\ \A d \in Callers : d # c => pc[d] = "idle"

\* the errors ensure_port_closed returns
ReclaimErrors == {"ErrForceKill", "ErrPortStillBound"}

\* C22: when the Port Reclaimer fails after stop has killed and reaped the
\* child, stop returns that error and does not put the handle back: the slot
\* is left as it is (empty, unless a start has stored a new server since the
\* take), and the child stop took is reaped and is not the one in the slot.
C22_ReclaimFailureLeavesSlotCleared ==
    [][\A c \in Callers :
          (InReclaimer(c) /\ pc'[c] = "done" /\ result'[c] \in ReclaimErrors)
             => /\ handle' = handle
                /\ via' = via
                /\ child[c] # None =>
                      (pstate[child[c]] = "reaped" /\ handle' # child[c])
      ]_vars

\* C22 witness: stop killed its child, the reclaimer gave up, stop returned
\* the port-still-bound error, and the start made after it was not rejected.
C22_Witness ==
    \E c \in Callers, d \in Callers :
        /\ pc[c] = "done" /\ result[c] = "ErrPortStillBound"
        /\ child[c] # None /\ pstate[child[c]] = "reaped"
        /\ pc[d] = "s_spawn" /\ handle = None

\* a step in which force_kill_port returns an error
ForceKillFails(c) == pc[c] \in {"e_kill", "e_pids"} /\ pc'[c] = "done"

\* a step of the loop over the PIDs
ForceKillVisit(c) == pc[c] = "e_pids" /\ (pc'[c] # pc[c] \/ pids' # pids)

\* C23: a failure of the owner query or of killing one PID ends
\* ensure_port_closed at once with that error. The PIDs not yet visited are
\* not killed, no further probe is made and the attempt count stays where it
\* was, and nothing follows the return; a PID that exited after the query
\* makes its kill fail, so the error is returned even when the port has
\* become unreachable.
C23_KillFailureAbortsReclaim ==
    [][\A c \in Callers :
          /\ ForceKillFails(c)
                => /\ result'[c] = "ErrForceKill"
                   /\ attempts'[c] = attempts[c] /\ probe'[c] = probe[c]
                   /\ killed' = killed /\ owners' = owners /\ pids' = pids
          /\ (ForceKillVisit(c) /\ Head(pids) \notin owners)
                => pc'[c] = "done" /\ result'[c] = "ErrForceKill"
          /\ pc[c] = "done"
                => /\ pc'[c] = "done" /\ result'[c] = result[c]
                   /\ killed' = killed /\ attempts'[c] = attempts[c]
                   /\ probe'[c] = probe[c]
      ]_vars

\* C23 witness: the two PIDs the query listed exited before the first kill;
\* that kill failed and the call returned its error in the first round, with
\* the second PID not visited and the port already unreachable.
C23_Witness ==
    /\ pc[Reclaimer] = "done" /\ result[Reclaimer] = "ErrForceKill"
    /\ attempts[Reclaimer] = 0 /\ probe[Reclaimer] = "open"
    /\ Len(pids) = 2 /\ killed = {}
    /\ abortAt = <<{}>> /\ ~listening

====
